---------------------------- MODULE Spec2Model ----------------------------
(* Model of neon_mq_connector: the consumer lifecycle of MQConnector /      *)
(* ConsumerThread (connector.py) and the retry decorator                    *)
(* (utils/connection_utils.py).                                             *)
(*                                                                          *)
(* The specifications of the module:                                        *)
(*   Spec       the connector: one control thread issuing register_consumer,*)
(*              run_consumers and stop_consumers, and one thread per        *)
(*              ConsumerThread object running its receive loop;             *)
(*   SpecFair   the same with every call under way coming to its end;      *)
(*   SpecRetry  one call of the wrapper built by retry(...);                *)
(*   SpecTimeout  one call of get_timeout;                                  *)
(*   SpecPublish  emit_mq_message, the broker queue it publishes to and the *)
(*              consumers of that queue, and the construction of           *)
(*              connectors;                                                 *)
(*   SpecPublishFair  the same with start_consuming delivering.             *)
EXTENDS Integers, Sequences, FiniteSets, TLC

\* ------------------------------------------------------------------------
\* Bounds
\* ------------------------------------------------------------------------

\* ConsumerThread objects constructed in one run of the connector
MaxWorkers == 2

\* largest num_retries given to retry(...)
MaxRetries == 4

\* the wrapped function fails on its first k invocations, k in 0..MaxFail,
\* and succeeds from then on
MaxFail == 6

\* largest backoff_factor given to retry(...)
MaxBackoff == 2

\* largest backoff_factor given to get_timeout, in tenths of a second
MaxTimeoutBackoff == 8

\* largest number_of_retries given to get_timeout
MaxAttemptNumber == 8

\* calls of emit_mq_message in one run
MaxPublish == 2

\* MQConnector instances constructed in one run
MaxConnectors == 2

\* the ConsumerThread objects constructed for one queue
MaxConsumers == 2

\* the values uuid4 draws from
MaxUuid == 2

\* registration names used by the control thread
Names == {"a", "b"}

WorkerIds == 1..MaxWorkers

ConsumerIds == 1..MaxConsumers

\* ------------------------------------------------------------------------
\* Exceptions, by the class the except clauses of the code tell apart
\* ------------------------------------------------------------------------

\* pika.exceptions.ChannelClosed and two subclasses of Exception that are
\* not ChannelClosed
Exceptions == {"ChannelClosed", "Exception", "StreamLostError"}

\* an exception that is no subclass of Exception: SystemExit (sys.exit() in
\* the callback), KeyboardInterrupt
BaseExceptions == {"SystemExit"}

\* `except pika.exceptions.ChannelClosed`
IsChannelClosed(e) == e = "ChannelClosed"

IsException(e) == e \in Exceptions

\* what a user callback may raise, and what the broker client raises out of
\* start_consuming on its own
CallbackExceptions == {"ChannelClosed", "Exception"} \cup BaseExceptions

\* what leaves start_consuming without a callback under way: the broker
\* closed the channel (ChannelClosed), the connection was lost
\* (StreamLostError), or an exception that is no subclass of Exception
LoopExceptions == {"ChannelClosed", "StreamLostError"} \cup BaseExceptions

VARIABLES
    workers,    \* ConsumerThread objects, by identity
    nextId,     \* identity of the next ConsumerThread constructed
    consumers,  \* MQConnector.consumers: dict name -> ConsumerThread, in insertion order
    ctl,        \* the control thread: idle, or inside run_consumers or stop_consumers
    last,       \* outcome of the control operation that ended last
    rt,         \* one call of the retry wrapper
    tm,         \* one call of get_timeout
    mq          \* the broker queue, the publisher and the connector instances

vars == <<workers, nextId, consumers, ctl, last, rt, tm, mq>>

connVars == <<workers, nextId, consumers, ctl, last>>

\* ------------------------------------------------------------------------
\* ConsumerThread
\* ------------------------------------------------------------------------

\* a ConsumerThread object that does not exist (yet)
NoWorker ==
    [name |-> "", conn |-> "none", chan |-> "none", thread |-> "none",
     built |-> FALSE, consuming |-> FALSE, starts |-> 0,
     raised |-> "none", raisedBy |-> "none",
     handlerCalls |-> 0, handlerArgs |-> <<0, "none">>, escaped |-> "none"]

\* a constructor that leaves the connection to be opened when the thread
\* starts
ConsumerThread_connection_lazy(wk) == [wk EXCEPT !.thread = "new"]

\* ConsumerThread.__init__ through `self.connection =
\* pika.BlockingConnection(connection_params)`, the call returning: the
\* thread object is initialised and the connection is open
ConsumerThread_connection(wk) == [wk EXCEPT !.thread = "new", !.conn = "open"]

\* `self.channel = self.connection.channel()`, the call returning
ConsumerThread_channel(wk) == [wk EXCEPT !.chan = "open"]

\* `self.channel.basic_consume(...)`, the call returning: the queue is
\* declared, consumption is registered and __init__ returns
ConsumerThread_basic_consume(wk) == [wk EXCEPT !.built = TRUE, !.consuming = TRUE]

\* what a broker call of ConsumerThread.__init__ does: none of them is in a
\* try block, so the first that raises leaves __init__ and register_consumer
\* with what was opened before it left open
InitOutcomes == {"returns", "raises"}

\* run with an except clause that logs the exception and does not call
\* error_func
run_except_log_only(self, wk, e, handlerRaises) ==
    [wk EXCEPT !.thread = "dead"]

\* the except clauses of ConsumerThread.run for an exception e leaving
\* start_consuming; handlerRaises says whether error_func itself raises.
\* The thread ends in every case; escaped is the exception that leaves run.
run_except(self, wk, e, handlerRaises) ==
    IF IsChannelClosed(e)
    THEN [wk EXCEPT !.thread = "dead"]
    ELSE IF IsException(e)
    THEN [wk EXCEPT !.thread = "dead",
                    !.handlerCalls = @ + 1,
                    !.handlerArgs = <<self, e>>,
                    !.escaped = IF handlerRaises THEN "Exception" ELSE "none"]
    ELSE [wk EXCEPT !.thread = "dead", !.escaped = e]

\* the try block of ConsumerThread.join makes three broker calls, in ONE
\* try: stop_consuming, channel.close if the channel is open,
\* connection.close if the connection is open. The consumer thread runs
\* between them. Each call returns or raises; the first that raises skips
\* the rest.
JoinOutcomes == {"returns", "raises"}

\* self.channel.stop_consuming() returns: no consumer is left on the channel
join_stop_consuming(wk) == [wk EXCEPT !.consuming = FALSE]

\* `if self.channel.is_open: self.channel.close()`, the call returning
join_channel_close(wk) == [wk EXCEPT !.chan = IF @ = "open" THEN "closed" ELSE @]

\* `if self.connection.is_open: self.connection.close()`, the call
\* returning; the channels of a connection are closed with it
join_connection_close(wk) == [wk EXCEPT !.conn = IF @ = "open" THEN "closed" ELSE @]

\* a join without the except clause: the exception of the broker call that
\* raised leaves join
join_except_reraise(wk, call) == TRUE

\* `except Exception as x: LOG.error(x)` in ConsumerThread.join: whether the
\* exception a broker call of the try block raised leaves join. It is
\* logged and dropped.
join_except(wk, call) == FALSE

\* ------------------------------------------------------------------------
\* MQConnector.consumers
\* ------------------------------------------------------------------------

Registered == {consumers[i].name : i \in 1..Len(consumers)}

\* self.consumers[name]
Lookup(name) ==
    LET i == CHOOSE i \in 1..Len(consumers) : consumers[i].name = name
    IN consumers[i].w

\* list(self.consumers)
ListConsumers == [i \in 1..Len(consumers) |-> consumers[i].name]

\* self.consumers[name] = w: a new key is appended, an existing key keeps
\* its place and gets the new value
SetConsumer(name, w) ==
    IF name \in Registered
    THEN [i \in 1..Len(consumers) |->
            IF consumers[i].name = name THEN [name |-> name, w |-> w] ELSE consumers[i]]
    ELSE Append(consumers, [name |-> name, w |-> w])


\* ------------------------------------------------------------------------
\* The control thread
\* ------------------------------------------------------------------------

Idle == [op |-> "idle", names |-> <<>>, i |-> 0, phase |-> "none",
         w |-> 0, x |-> FALSE, targets |-> {}, done |-> {}]

NoOp == [op |-> "none", result |-> "none"]

\* the tuples of names a caller passes as names=: each name at most once
NameTuples ==
    {<<>>} \cup {<<n>> : n \in Names}
           \cup {<<n, m>> : <<n, m>> \in {p \in Names \X Names : p[1] # p[2]}}

\* the workers a call with names= is about: the registered ones among the
\* names given, every registered one when no name is given
Targeted(names) ==
    {consumers[i].w : i \in {j \in 1..Len(consumers) :
                                names = <<>> \/ \E k \in 1..Len(names) : names[k] = consumers[j].name}}

Running(wk) == wk.thread \in {"loop", "callback"}

\* the control thread is in register_consumer, inside
\* ConsumerThread.__init__, before the broker call `phase`
Registering(phase) == ctl.op = "register" /\ ctl.phase = phase

\* a broker call of ConsumerThread.__init__ raised: the exception leaves
\* register_consumer, the registry is as it was and the object is dropped
\* as it is
register_raises ==
    /\ ctl' = Idle
    /\ last' = [op |-> "register", result |-> "raised"]
    /\ UNCHANGED <<workers, nextId, consumers, rt, tm, mq>>

\* register_consumer(name, ...) is called: ConsumerThread.__init__ runs
\* through pika.BlockingConnection(...), which opens the connection or
\* raises. The consumer threads run while the control thread waits in this
\* and in the broker calls that follow.
register_consumer(name, o) ==
    /\ ctl.op = "idle"
    /\ nextId <= MaxWorkers
    /\ IF o = "returns"
       THEN /\ workers' = [workers EXCEPT ![nextId] = ConsumerThread_connection(NoWorker)]
            /\ nextId' = nextId + 1
            /\ ctl' = [Idle EXCEPT !.op = "register", !.names = <<name>>,
                                   !.phase = "connection.channel", !.w = nextId]
            /\ UNCHANGED <<consumers, last, rt, tm, mq>>
       ELSE register_raises

\* `self.channel = self.connection.channel()`
register_channel(o) ==
    /\ Registering("connection.channel")
    /\ IF o = "returns"
       THEN /\ workers' = [workers EXCEPT ![ctl.w] = ConsumerThread_channel(@)]
            /\ ctl' = [ctl EXCEPT !.phase = "basic_qos"]
            /\ UNCHANGED <<nextId, consumers, last, rt, tm, mq>>
       ELSE register_raises

\* `self.channel.basic_qos(prefetch_count=50)`
register_basic_qos(o) ==
    /\ Registering("basic_qos")
    /\ IF o = "returns"
       THEN /\ ctl' = [ctl EXCEPT !.phase = "queue_declare"]
            /\ UNCHANGED <<workers, nextId, consumers, last, rt, tm, mq>>
       ELSE register_raises

\* `self.channel.queue_declare(queue=self.queue, auto_delete=False)`
register_queue_declare(o) ==
    /\ Registering("queue_declare")
    /\ IF o = "returns"
       THEN /\ ctl' = [ctl EXCEPT !.phase = "basic_consume"]
            /\ UNCHANGED <<workers, nextId, consumers, last, rt, tm, mq>>
       ELSE register_raises

\* `self.channel.basic_consume(...)`; when it returns, so does __init__,
\* and register_consumer stores the object under name and returns
register_basic_consume(o) ==
    /\ Registering("basic_consume")
    /\ IF o = "returns"
       THEN /\ workers' = [workers EXCEPT ![ctl.w] =
                    [ConsumerThread_basic_consume(@) EXCEPT !.name = ctl.names[1]]]
            /\ consumers' = SetConsumer(ctl.names[1], ctl.w)
            /\ ctl' = Idle
            /\ last' = [op |-> "register", result |-> "returned"]
            /\ UNCHANGED <<nextId, rt, tm, mq>>
       ELSE register_raises

\* the names given are ignored: every registered name is gone through
effective_names_all(names) == ListConsumers

\* `if not names or len(names) == 0: names = list(self.consumers)`
effective_names(names) == IF names = <<>> THEN ListConsumers ELSE names

\* threading.Thread.start of a thread that was started before raises
\* RuntimeError
Thread_start_raises(wk) == wk.thread # "new"

\* threading.Thread.start: the thread enters run and blocks in
\* start_consuming
Thread_start(wk) == [wk EXCEPT !.thread = "loop", !.starts = @ + 1]

\* run_consumers is called: the names to go through are fixed
run_consumers(names) ==
    /\ ctl.op = "idle"
    /\ ctl' = [Idle EXCEPT !.op = "run", !.names = effective_names(names), !.i = 1,
                           !.phase = "start", !.targets = Targeted(names)]
    /\ last' = NoOp
    /\ UNCHANGED <<workers, nextId, consumers, rt, tm, mq>>

\* one turn of the for loop of run_consumers: a name that is not registered
\* is passed over, the thread of a registered one is started; the threads
\* started in earlier turns run meanwhile. A RuntimeError of Thread.start
\* leaves run_consumers.
run_start ==
    /\ ctl.op = "run" /\ ctl.i <= Len(ctl.names)
    /\ IF ctl.names[ctl.i] \notin Registered
       THEN /\ ctl' = [ctl EXCEPT !.i = @ + 1]
            /\ UNCHANGED <<workers, last>>
       ELSE LET w == Lookup(ctl.names[ctl.i]) IN
            IF Thread_start_raises(workers[w])
            THEN /\ ctl' = Idle
                 /\ last' = [op |-> "run", result |-> "RuntimeError"]
                 /\ UNCHANGED workers
            ELSE /\ workers' = [workers EXCEPT ![w] = Thread_start(workers[w])]
                 /\ ctl' = [ctl EXCEPT !.i = @ + 1, !.done = @ \cup {w}]
                 /\ UNCHANGED last
    /\ UNCHANGED <<nextId, consumers, rt, tm, mq>>

\* the for loop of run_consumers is through: it returns
run_return ==
    /\ ctl.op = "run" /\ ctl.i > Len(ctl.names)
    /\ ctl' = Idle
    /\ last' = [op |-> "run", result |-> "returned"]
    /\ UNCHANGED <<workers, nextId, consumers, rt, tm, mq>>

\* stop_consumers is called: the names to go through are fixed
stop_consumers(names) ==
    /\ ctl.op = "idle"
    /\ ctl' = [Idle EXCEPT !.op = "stop", !.names = effective_names(names), !.i = 1,
                           !.phase = "try", !.targets = Targeted(names)]
    /\ last' = NoOp
    /\ UNCHANGED <<workers, nextId, consumers, rt, tm, mq>>

\* one turn of the for loop of stop_consumers up to the first broker call of
\* ConsumerThread.join: a name that is not registered is passed over, for a
\* registered one join is entered and self.channel.stop_consuming() is
\* called, which returns or raises
stop_try(o) ==
    /\ ctl.op = "stop" /\ ctl.phase = "try" /\ ctl.i <= Len(ctl.names)
    /\ IF ctl.names[ctl.i] \notin Registered
       THEN /\ o = "returns"
            /\ ctl' = [ctl EXCEPT !.i = @ + 1]
            /\ UNCHANGED workers
       ELSE LET w == Lookup(ctl.names[ctl.i]) IN
            IF o = "raises"
            THEN /\ ctl' = [ctl EXCEPT !.phase = "join", !.w = w, !.done = @ \cup {w},
                                       !.x = join_except(workers[w], "stop_consuming")]
                 /\ UNCHANGED workers
            ELSE /\ workers' = [workers EXCEPT ![w] = join_stop_consuming(workers[w])]
                 /\ ctl' = [ctl EXCEPT !.phase = "channel.close", !.w = w, !.done = @ \cup {w}]
    /\ UNCHANGED <<nextId, consumers, last, rt, tm, mq>>

\* the second broker call of the try block: the channel is closed if it is
\* open, and the call returns or raises
stop_channel_close(o) ==
    /\ ctl.op = "stop" /\ ctl.phase = "channel.close"
    /\ IF workers[ctl.w].chan = "open" /\ o = "raises"
       THEN /\ ctl' = [ctl EXCEPT !.phase = "join",
                                  !.x = join_except(workers[ctl.w], "channel.close")]
            /\ UNCHANGED workers
       ELSE /\ o = "returns"
            /\ workers' = [workers EXCEPT ![ctl.w] = join_channel_close(workers[ctl.w])]
            /\ ctl' = [ctl EXCEPT !.phase = "connection.close"]
    /\ UNCHANGED <<nextId, consumers, last, rt, tm, mq>>

\* the third broker call of the try block: the connection is closed if it
\* is open, and the call returns or raises; the finally clause is next
stop_connection_close(o) ==
    /\ ctl.op = "stop" /\ ctl.phase = "connection.close"
    /\ IF workers[ctl.w].conn = "open" /\ o = "raises"
       THEN /\ ctl' = [ctl EXCEPT !.phase = "join",
                                  !.x = join_except(workers[ctl.w], "connection.close")]
            /\ UNCHANGED workers
       ELSE /\ o = "returns"
            /\ workers' = [workers EXCEPT ![ctl.w] = join_connection_close(workers[ctl.w])]
            /\ ctl' = [ctl EXCEPT !.phase = "join"]
    /\ UNCHANGED <<nextId, consumers, last, rt, tm, mq>>

\* a join that gives up waiting: it returns while the thread is alive
join_returns_alive(wk) == wk.thread # "new"

\* threading.Thread.join() without timeout returns once the thread has ended
join_returns(wk) == wk.thread = "dead"

\* threading.Thread.join() of a thread that was never started raises
\* RuntimeError
join_raises(wk) == wk.thread = "new"

\* the finally clause of ConsumerThread.join returns: the for loop of
\* stop_consumers goes on with the next name
stop_joined ==
    /\ ctl.op = "stop" /\ ctl.phase = "join"
    /\ join_returns(workers[ctl.w]) /\ ~ctl.x
    /\ ctl' = [ctl EXCEPT !.phase = "try", !.i = @ + 1]
    /\ UNCHANGED <<workers, nextId, consumers, last, rt, tm, mq>>

\* ConsumerThread.join raises, out of its finally clause or, once that is
\* through, with an exception the try block left pending: stop_consumers
\* raises ChildProcessError out of its for loop
stop_raise ==
    /\ ctl.op = "stop" /\ ctl.phase = "join"
    /\ join_raises(workers[ctl.w]) \/ (ctl.x /\ join_returns(workers[ctl.w]))
    /\ ctl' = Idle
    /\ last' = [op |-> "stop", result |-> "ChildProcessError"]
    /\ UNCHANGED <<workers, nextId, consumers, rt, tm, mq>>

\* the for loop of stop_consumers is through: it returns
stop_return ==
    /\ ctl.op = "stop" /\ ctl.phase = "try" /\ ctl.i > Len(ctl.names)
    /\ ctl' = Idle
    /\ last' = [op |-> "stop", result |-> "returned"]
    /\ UNCHANGED <<workers, nextId, consumers, rt, tm, mq>>

\* ------------------------------------------------------------------------
\* The consumer threads
\* ------------------------------------------------------------------------

\* whether error_func raises is open where run calls it
HandlerRaises(e) == IF IsChannelClosed(e) \/ ~IsException(e) THEN {FALSE} ELSE BOOLEAN

\* the broker delivers a message: start_consuming calls callback_func
deliver(w) ==
    /\ workers[w].thread = "loop"
    /\ workers[w].consuming /\ workers[w].chan = "open" /\ workers[w].conn = "open"
    /\ workers' = [workers EXCEPT ![w].thread = "callback"]
    /\ UNCHANGED <<nextId, consumers, ctl, last, rt, tm, mq>>

\* callback_func returns: back into the receive loop
callback_returns(w) ==
    /\ workers[w].thread = "callback"
    /\ workers' = [workers EXCEPT ![w].thread = "loop"]
    /\ UNCHANGED <<nextId, consumers, ctl, last, rt, tm, mq>>

\* callback_func raises e: it leaves start_consuming and reaches run's
\* except clauses
callback_raises(w, e, handlerRaises) ==
    /\ workers[w].thread = "callback"
    /\ workers' = [workers EXCEPT ![w] =
            run_except(w, [workers[w] EXCEPT !.raised = e, !.raisedBy = "callback"],
                       e, handlerRaises)]
    /\ UNCHANGED <<nextId, consumers, ctl, last, rt, tm, mq>>

\* start_consuming raises e on its own. The broker closed the channel
\* (ChannelClosed): the channel is closed, the connection is not. The
\* connection was lost (StreamLostError): both are closed. An exception that
\* is no subclass of Exception: channel and connection stay as they are. run
\* closes nothing itself.
loop_raises(w, e, handlerRaises) ==
    /\ workers[w].thread = "loop"
    /\ workers' = [workers EXCEPT ![w] =
            run_except(w,
                       IF IsException(e)
                       THEN [workers[w] EXCEPT
                                !.raised = e, !.raisedBy = "loop",
                                !.consuming = FALSE,
                                !.chan = IF @ = "open" THEN "closed" ELSE @,
                                !.conn = IF @ = "open" /\ ~IsChannelClosed(e)
                                         THEN "closed" ELSE @]
                       ELSE [workers[w] EXCEPT !.raised = e, !.raisedBy = "loop"],
                       e, handlerRaises)]
    /\ UNCHANGED <<nextId, consumers, ctl, last, rt, tm, mq>>

\* start_consuming returns once no consumer is left on the channel
\* (stop_consuming went through): run returns
loop_exits(w) ==
    /\ workers[w].thread = "loop"
    /\ ~workers[w].consuming
    /\ workers' = [workers EXCEPT ![w].thread = "dead"]
    /\ UNCHANGED <<nextId, consumers, ctl, last, rt, tm, mq>>

\* ------------------------------------------------------------------------
\* The connector
\* ------------------------------------------------------------------------

\* ------------------------------------------------------------------------
\* emit_mq_message, the broker queue and its consumer, MQConnector.__init__
\* ------------------------------------------------------------------------

\* the values uuid.uuid4() returns: it draws at random, so any value may
\* come at any call, also one that came before
Uuid4 == 1..MaxUuid

\* UUID.hex: the hexadecimal string of a value, one string per value
UuidHex == <<"0a", "1b", "2c", "3d">>

\* an id generator that returns the same string whatever uuid4 drew
create_unique_id_fixed(uuid4) == UuidHex[1]

\* create_unique_id: `return uuid.uuid4().hex`, when uuid4() returns uuid4
create_unique_id(uuid4) == UuidHex[uuid4]

\* Python values passed as request_data: n is the length of a list or a
\* str and the value of an int; items are the (key, value) pairs of a dict,
\* in insertion order
PyValue(type, n, items) == [type |-> type, n |-> n, items |-> items]

PyNone == PyValue("NoneType", 0, <<>>)

PyDict(items) == PyValue("dict", 0, items)

PyList(n) == PyValue("list", n, <<>>)

PyStr(n) == PyValue("str", n, <<>>)

PyInt(n) == PyValue("int", n, <<>>)

\* the values of request_data the callers pass
Payloads ==
    {PyNone, PyDict(<<>>),
     PyDict(<< <<"data", "Hello!">> >>),
     PyDict(<< <<"message_id", "old">>, <<"data", "Hello!">> >>),
     PyList(0), PyList(1), PyStr(0), PyStr(1), PyInt(0), PyInt(5)}

\* bool(v)
Truthy(v) ==
    CASE v.type = "NoneType" -> FALSE
      [] v.type = "dict" -> v.items # <<>>
      [] v.type = "int" -> v.n # 0
      [] OTHER -> v.n > 0

\* whether len(v) is defined: it raises TypeError for an int
HasLen(v) == v.type \in {"dict", "list", "str"}

\* len(v)
PyLen(v) == IF v.type = "dict" THEN Len(v.items) ELSE v.n

\* `if request_data and len(request_data) > 0 and isinstance(request_data,
\* dict)`, evaluated left to right
validate(request_data) ==
    IF ~Truthy(request_data) THEN "invalid"
    ELSE IF ~HasLen(request_data) THEN "TypeError"
    ELSE IF PyLen(request_data) > 0 /\ request_data.type = "dict" THEN "valid"
    ELSE "invalid"

HasKey(items, key) == \E i \in 1..Len(items) : items[i][1] = key

\* d[key]
GetItem(items, key) == items[CHOOSE i \in 1..Len(items) : items[i][1] = key][2]

\* d.setdefault(key, value): a key that is there keeps its value
SetItem_default(items, key, value) ==
    IF HasKey(items, key) THEN items ELSE Append(items, <<key, value>>)

\* d[key] = value
SetItem(items, key, value) ==
    IF HasKey(items, key)
    THEN [i \in 1..Len(items) |-> IF items[i][1] = key THEN <<key, value>> ELSE items[i]]
    ELSE Append(items, <<key, value>>)

\* neon_utils.socket_utils.dict_to_b64: the dict serialised, key after value
\* after key, into one flat body
dict_to_b64(items) ==
    [i \in 1..(2 * Len(items)) |-> items[(i + 1) \div 2][IF i % 2 = 1 THEN 1 ELSE 2]]

\* what a call to the broker does: it returns, or it fails and raises
PublishOutcomes == {"ok", "AMQPError"}

\* no call of emit_mq_message was made
NoPub == [request_data |-> PyNone, after |-> PyNone, uuid4 |-> 0, message_id |-> "none",
          result |-> "none", channels |-> 0, published |-> 0]

\* the broker queue Q (declared or not, its messages); the ConsumerThread
\* objects constructed for Q, in the order of their construction, each
\* "init" (Q declared, basic_consume not called yet), "failed" (__init__
\* raised), "created", "running" or "stopped"; the messages the callback
\* received; the calls of emit_mq_message whose message was lost, and those
\* whose message was published before any consumer of Q was registered; the
\* connectors constructed (what uuid4 drew and the service id); what the
\* calls of emit_mq_message returned; the number of calls; where the call
\* under way is; what the last call did (result "none" until it ends); and
\* the number of channels emit_mq_message opened and has not closed
MqIdle ==
    [declared |-> FALSE, cons |-> <<>>,
     queue |-> <<>>, received |-> <<>>,
     lost |-> {}, early |-> {}, services |-> <<>>,
     returned |-> <<>>, calls |-> 0, pc |-> "idle", lastPub |-> NoPub, open |-> 0]

\* MQConnector.__init__: self._service_id = self.create_unique_id()
MQConnector_init(uuid4) ==
    /\ Len(mq.services) < MaxConnectors
    /\ mq' = [mq EXCEPT !.services =
                    Append(@, [uuid4 |-> uuid4, service_id |-> create_unique_id(uuid4)])]
    /\ UNCHANGED <<connVars, rt, tm>>

\* emit_mq_message(connection, "Q", request_data, '') is called: an invalid
\* request_data raises before anything is done; otherwise the id is drawn
\* (uuid4 is what uuid.uuid4() returns) and stored in the caller's dict, and
\* connection.channel() is next
emit_mq_message(request_data, uuid4) ==
    /\ mq.pc = "idle"
    /\ mq.calls < MaxPublish
    /\ LET v == validate(request_data) IN
       IF v = "valid"
       THEN LET message_id == create_unique_id(uuid4)
                data == SetItem(request_data.items, "message_id", message_id)
            IN mq' = [mq EXCEPT
                        !.calls = @ + 1,
                        !.pc = "channel",
                        !.lastPub = [request_data |-> request_data, after |-> PyDict(data),
                                     uuid4 |-> uuid4, message_id |-> message_id,
                                     result |-> "none",
                                     channels |-> 0, published |-> 0]]
       ELSE mq' = [mq EXCEPT
                        !.calls = @ + 1,
                        !.lastPub = [request_data |-> request_data, after |-> request_data,
                                     uuid4 |-> 0, message_id |-> "none",
                                     result |-> IF v = "invalid" THEN "ValueError" ELSE "TypeError",
                                     channels |-> 0, published |-> 0]]
    /\ UNCHANGED <<connVars, rt, tm>>

\* `channel = connection.channel()`: the channel is opened, or the call
\* raises and the exception leaves emit_mq_message
connection_channel(o) ==
    /\ mq.pc = "channel"
    /\ mq' = IF o = "ok"
             THEN [mq EXCEPT !.pc = "basic_publish", !.open = @ + 1,
                             !.lastPub.channels = 1]
             ELSE [mq EXCEPT !.pc = "idle", !.lastPub.result = o]
    /\ UNCHANGED <<connVars, rt, tm>>

\* a consumer of Q has been registered with the broker, running or stopped
\* by now or not
Subscribed == \E i \in 1..Len(mq.cons) : mq.cons[i] \in {"created", "running", "stopped"}

\* `channel.basic_publish(...)`: the body is published with routing key Q
\* (the default exchange drops it when no queue Q is declared), or the call
\* raises and the exception leaves emit_mq_message, channel.close() not
\* reached. A message is the call that published it, the id of the call,
\* the dict the body was made of and the body.
basic_publish(o) ==
    /\ mq.pc = "basic_publish"
    /\ LET msg == [call |-> mq.calls, message_id |-> mq.lastPub.message_id,
                   request_data |-> mq.lastPub.after.items,
                   body |-> dict_to_b64(mq.lastPub.after.items)]
       IN mq' = IF o = "ok"
                THEN [mq EXCEPT
                        !.pc = "channel.close",
                        !.queue = IF mq.declared THEN Append(@, msg) ELSE @,
                        !.lost = IF mq.declared THEN @ ELSE @ \cup {mq.calls},
                        !.early = IF Subscribed THEN @ ELSE @ \cup {mq.calls},
                        !.lastPub.published = 1]
                ELSE [mq EXCEPT !.pc = "idle", !.lastPub.result = o]
    /\ UNCHANGED <<connVars, rt, tm>>

\* `channel.close()` and `return message_id`: the channel is closed and the
\* id returned, or the call raises and the exception leaves emit_mq_message
channel_close(o) ==
    /\ mq.pc = "channel.close"
    /\ mq' = IF o = "ok"
             THEN [mq EXCEPT !.pc = "idle", !.open = @ - 1,
                             !.returned = Append(@, [call |-> mq.calls,
                                                     uuid4 |-> mq.lastPub.uuid4,
                                                     message_id |-> mq.lastPub.message_id]),
                             !.lastPub.result = mq.lastPub.message_id]
             ELSE [mq EXCEPT !.pc = "idle", !.lastPub.result = o]
    /\ UNCHANGED <<connVars, rt, tm>>

\* register_consumer for queue Q, whatever consumers of Q there are:
\* ConsumerThread.__init__ up to `self.channel.queue_declare(queue=
\* self.queue, ...)`, which declares Q or raises; an exception leaves
\* __init__ and register_consumer
queue_declare(o) ==
    /\ Len(mq.cons) < MaxConsumers
    /\ mq' = IF o = "ok"
             THEN [mq EXCEPT !.declared = TRUE, !.cons = Append(@, "init")]
             ELSE [mq EXCEPT !.cons = Append(@, "failed")]
    /\ UNCHANGED <<connVars, rt, tm>>

\* `self.channel.basic_consume(...)` of the i-th ConsumerThread: the
\* consumer is registered with the broker, __init__ returns and
\* register_consumer stores the object; or the call raises, the exception
\* leaves register_consumer and the registry is as it was, with Q declared
basic_consume(i, o) ==
    /\ i \in 1..Len(mq.cons)
    /\ mq.cons[i] = "init"
    /\ mq' = [mq EXCEPT !.cons[i] = IF o = "ok" THEN "created" ELSE "failed"]
    /\ UNCHANGED <<connVars, rt, tm>>

\* ConsumerThread.run of the i-th consumer of Q: start_consuming
start_consuming(i) ==
    /\ i \in 1..Len(mq.cons)
    /\ mq.cons[i] = "created"
    /\ mq' = [mq EXCEPT !.cons[i] = "running"]
    /\ UNCHANGED <<connVars, rt, tm>>

\* the broker delivers the oldest message of Q to the i-th consumer:
\* callback_func gets its body
on_message_callback(i) ==
    /\ i \in 1..Len(mq.cons)
    /\ mq.cons[i] = "running"
    /\ mq.queue # <<>>
    /\ mq' = [mq EXCEPT !.queue = Tail(@), !.received = Append(@, Head(mq.queue))]
    /\ UNCHANGED <<connVars, rt, tm>>

\* `expiration='1000'`: a message that has been in Q for a second is dropped
\* by the broker, the oldest first
message_expires ==
    /\ mq.queue # <<>>
    /\ mq' = [mq EXCEPT !.queue = Tail(@), !.lost = @ \cup {Head(mq.queue).call}]
    /\ UNCHANGED <<connVars, rt, tm>>

\* ConsumerThread.join of the i-th consumer of Q: stop_consuming
stop_consuming(i) ==
    /\ i \in 1..Len(mq.cons)
    /\ mq.cons[i] \in {"created", "running"}
    /\ mq' = [mq EXCEPT !.cons[i] = "stopped"]
    /\ UNCHANGED <<connVars, rt, tm>>

\* ------------------------------------------------------------------------
\* retry(...)(function): one call of wrapper
\* ------------------------------------------------------------------------

RECURSIVE Pow2(_)
Pow2(n) == IF n = 0 THEN 1 ELSE 2 * Pow2(n - 1)

\* a timeout that grows by backoff_factor with each retry
get_timeout_x2_linear(backoff_factor, number_of_retries) ==
    backoff_factor * 2 * number_of_retries

\* get_timeout, in half seconds: backoff_factor * 2 ** (number_of_retries - 1)
\* is a float, and twice that value is the integer below for every
\* number_of_retries >= 0
get_timeout_x2(backoff_factor, number_of_retries) ==
    backoff_factor * Pow2(number_of_retries)

\* ------------------------------------------------------------------------
\* get_timeout: one call
\* ------------------------------------------------------------------------

\* the value of a variable in a specification that has no action on it
Unused == <<>>

\* no call of get_timeout is going on
TmIdle == [pc |-> "idle", backoff_factor |-> 0, number_of_retries |-> 0, timeout_x2 |-> 0]

\* get_timeout(backoff_factor, number_of_retries) is called
TmCall(backoff_factor, number_of_retries) ==
    [TmIdle EXCEPT !.pc = "call", !.backoff_factor = backoff_factor,
                   !.number_of_retries = number_of_retries]

\* get_timeout returns
get_timeout ==
    /\ tm.pc = "call"
    /\ tm' = [tm EXCEPT !.pc = "returned",
                        !.timeout_x2 = get_timeout_x2(tm.backoff_factor, tm.number_of_retries)]
    /\ UNCHANGED <<connVars, rt, mq>>

\* the exceptions the wrapped function raises
RetryExceptions == {"ConnectionError", "TimeoutError"}

\* the objects the wrapped method is called on
Objects == {"obj", "other"}

\* callback_on_attempt_failure_args as given to retry(...): the
\* placeholders for the exception and for the object
PlaceholderArgs == <<"e", "self">>

\* what the list callback_on_attempt_failure_args, which all calls of the
\* wrapper share, holds when a call starts: the placeholders, or what a
\* failed attempt of an earlier call has put in their place
ArgsAtCall ==
    {PlaceholderArgs} \cup {<<e, o>> : e \in RetryExceptions, o \in Objects}

\* the for loop over callback_on_attempt_failure_args: 'e' and 'self' are
\* replaced, in the list itself, by the exception and the object
resolve_args(args, e, self) ==
    [i \in 1..Len(args) |->
        IF args[i] = "e" THEN e ELSE IF args[i] = "self" THEN self ELSE args[i]]

\* no call of wrapper is going on
RtIdle ==
    [pc |-> "idle", num_retries |-> 0, backoff_factor |-> 0, fails |-> 0,
     num_attempts |-> 0, calls |-> 0, failed |-> 0, on_failure |-> 0,
     sleeps |-> <<>>, exceeded |-> 0,
     self |-> "none", e |-> "none", args |-> PlaceholderArgs, passed |-> <<>>]

\* wrapper(self) is called: num_attempts has its default, 0
RtCall(num_retries, backoff_factor, fails) ==
    [RtIdle EXCEPT !.pc = "try", !.num_retries = num_retries,
                   !.backoff_factor = backoff_factor, !.fails = fails]

\* `function(self, *args, **kwargs)`: it raises, one exception or another,
\* on its first rt.fails invocations; when it returns, wrapper returns, and
\* so does every wrapper frame below it
wrapper_try ==
    /\ rt.pc = "try"
    /\ IF rt.calls < rt.fails
       THEN \E e \in RetryExceptions :
                rt' = [rt EXCEPT !.calls = @ + 1, !.failed = @ + 1, !.e = e, !.pc = "except"]
       ELSE rt' = [rt EXCEPT !.calls = @ + 1, !.pc = "done"]
    /\ UNCHANGED <<connVars, tm, mq>>

\* an except clause that goes from callback_on_attempt_failure to the test
\* of num_attempts without sleeping
wrapper_on_attempt_failure_no_sleep ==
    /\ rt.pc = "except"
    /\ LET args == resolve_args(rt.args, rt.e, rt.self) IN
        rt' = [rt EXCEPT !.args = args, !.passed = args,
                         !.on_failure = @ + 1, !.pc = "branch"]
    /\ UNCHANGED <<connVars, tm, mq>>

\* the except clause up to the call of callback_on_attempt_failure, which
\* gets the list as its arguments
wrapper_on_attempt_failure ==
    /\ rt.pc = "except"
    /\ LET args == resolve_args(rt.args, rt.e, rt.self) IN
        rt' = [rt EXCEPT !.args = args, !.passed = args,
                         !.on_failure = @ + 1, !.pc = "sleep"]
    /\ UNCHANGED <<connVars, tm, mq>>

\* `time.sleep(get_timeout(backoff_factor, number_of_retries=num_attempts))`
wrapper_sleep ==
    /\ rt.pc = "sleep"
    /\ rt' = [rt EXCEPT !.sleeps = Append(@, get_timeout_x2(rt.backoff_factor, rt.num_attempts)),
                        !.pc = "branch"]
    /\ UNCHANGED <<connVars, tm, mq>>

\* `if num_attempts < num_retries`: num_attempts += 1, then wrapper is
\* called again with num_attempts=num_attempts+1; else
\* callback_on_exceeded is called and wrapper returns
wrapper_branch ==
    /\ rt.pc = "branch"
    /\ rt' = IF rt.num_attempts < rt.num_retries
             THEN [rt EXCEPT !.num_attempts = (@ + 1) + 1, !.pc = "try"]
             ELSE [rt EXCEPT !.exceeded = @ + 1, !.pc = "done"]
    /\ UNCHANGED <<connVars, tm, mq>>

InitRetry ==
    /\ workers = [w \in WorkerIds |-> NoWorker]
    /\ nextId = 1
    /\ consumers = <<>>
    /\ ctl = Idle
    /\ last = NoOp
    /\ rt \in {[RtCall(r, b, k) EXCEPT !.self = "obj", !.args = a] :
                    r \in 0..MaxRetries, b \in 1..MaxBackoff, k \in 0..MaxFail,
                    a \in ArgsAtCall}
    /\ tm = TmIdle
    /\ mq = MqIdle

NextRetry ==
    \/ wrapper_try
    \/ wrapper_on_attempt_failure
    \/ wrapper_sleep
    \/ wrapper_branch

SpecRetry == InitRetry /\ [][NextRetry]_vars

InitTimeout ==
    /\ workers = [w \in WorkerIds |-> NoWorker]
    /\ nextId = 1
    /\ consumers = <<>>
    /\ ctl = Idle
    /\ last = NoOp
    /\ rt = RtIdle
    /\ tm \in {TmCall(b, n) : b \in 1..MaxTimeoutBackoff, n \in 1..MaxAttemptNumber}
    /\ mq = MqIdle

NextTimeout == get_timeout

SpecTimeout == InitTimeout /\ [][NextTimeout]_vars

InitPublish ==
    /\ workers = [w \in WorkerIds |-> NoWorker]
    /\ nextId = 1
    /\ consumers = <<>>
    /\ ctl = Idle
    /\ last = NoOp
    /\ rt = RtIdle
    /\ tm = TmIdle
    /\ mq \in {[MqIdle EXCEPT !.declared = d] : d \in BOOLEAN}

NextPublish ==
    \/ \E u \in Uuid4 : MQConnector_init(u)
    \/ \E d \in Payloads, u \in Uuid4 : emit_mq_message(d, u)
    \/ \E o \in PublishOutcomes : connection_channel(o)
    \/ \E o \in PublishOutcomes : basic_publish(o)
    \/ \E o \in PublishOutcomes : channel_close(o)
    \/ \E o \in PublishOutcomes : queue_declare(o)
    \/ \E i \in ConsumerIds, o \in PublishOutcomes : basic_consume(i, o)
    \/ \E i \in ConsumerIds : start_consuming(i)
    \/ \E i \in ConsumerIds : on_message_callback(i)
    \/ message_expires
    \/ \E i \in ConsumerIds : stop_consuming(i)

SpecPublish == InitPublish /\ [][NextPublish]_vars

\* the same, with start_consuming (connector.py:61) doing what it is called
\* for: while a consumer of Q is blocked in it and Q holds a message, a
\* message is handed to a callback. Nothing is assumed of the callers:
\* whether a consumer is ever registered or started is left open.
SpecPublishFair ==
    /\ SpecPublish
    /\ WF_vars(\E i \in ConsumerIds : on_message_callback(i))

Init ==
    /\ workers = [w \in WorkerIds |-> NoWorker]
    /\ nextId = 1
    /\ consumers = <<>>
    /\ ctl = Idle
    /\ last = NoOp
    /\ rt = RtIdle
    /\ tm = Unused
    /\ mq = Unused

Next ==
    \/ \E n \in Names, o \in InitOutcomes : register_consumer(n, o)
    \/ \E o \in InitOutcomes : register_channel(o)
    \/ \E o \in InitOutcomes : register_basic_qos(o)
    \/ \E o \in InitOutcomes : register_queue_declare(o)
    \/ \E o \in InitOutcomes : register_basic_consume(o)
    \/ \E ns \in NameTuples : run_consumers(ns)
    \/ run_start
    \/ run_return
    \/ \E ns \in NameTuples : stop_consumers(ns)
    \/ \E o \in JoinOutcomes : stop_try(o)
    \/ \E o \in JoinOutcomes : stop_channel_close(o)
    \/ \E o \in JoinOutcomes : stop_connection_close(o)
    \/ stop_joined
    \/ stop_raise
    \/ stop_return
    \/ \E w \in WorkerIds : deliver(w)
    \/ \E w \in WorkerIds : callback_returns(w)
    \/ \E w \in WorkerIds, e \in CallbackExceptions :
            \E h \in HandlerRaises(e) : callback_raises(w, e, h)
    \/ \E w \in WorkerIds, e \in LoopExceptions :
            \E h \in HandlerRaises(e) : loop_raises(w, e, h)
    \/ \E w \in WorkerIds : loop_exits(w)

Spec == Init /\ [][Next]_vars

\* the same, with every call that is under way coming to its end: the
\* control thread goes on inside stop_consumers, a callback that does not
\* raise returns, and start_consuming returns once consumption is cancelled
SpecFair ==
    /\ Spec
    /\ WF_vars(run_start)
    /\ WF_vars(run_return)
    /\ WF_vars(\E o \in JoinOutcomes : stop_try(o))
    /\ WF_vars(\E o \in JoinOutcomes : stop_channel_close(o))
    /\ WF_vars(\E o \in JoinOutcomes : stop_connection_close(o))
    /\ WF_vars(stop_joined)
    /\ WF_vars(stop_raise)
    /\ WF_vars(stop_return)
    /\ \A w \in WorkerIds : WF_vars(callback_returns(w))
    /\ \A w \in WorkerIds : WF_vars(loop_exits(w))


\* ------------------------------------------------------------------------
\* Properties
\* ------------------------------------------------------------------------

Allocated == {w \in WorkerIds : workers[w].thread # "none"}

RegisteredWorkers == {consumers[i].w : i \in 1..Len(consumers)}

\* the control thread is in stop_consumers at the point where the for loop
\* is through: the next step returns to the caller
StopReturns == ENABLED stop_return

\* the control thread is in stop_consumers at the point where join raised:
\* the next step raises ChildProcessError to the caller
StopRaises == ENABLED stop_raise

\* C1 (as claimed): when stop_consumers raises to its caller, shutdown has
\* been attempted (join called) on every targeted worker, the ones after
\* the failing one included.
C1_RaisesAfterAllAttempted == StopRaises => ctl.done = ctl.targets

\* C1: stop_consumers is about to raise for the first of two targeted
\* workers, and the second one is running.
C1_Witness ==
    /\ StopRaises
    /\ \E w \in ctl.targets \ ctl.done : Running(workers[w])

\* C2 (as claimed): in ConsumerThread.join a teardown step that fails does
\* not prevent the later steps: after the try block in which stop_consuming
\* raised, channel and connection are not left open, and after one in which
\* channel.close raised, the connection is not left open.
C2_FailedStepDoesNotSkipLater ==
    [][(ctl.op = "stop" /\ ctl.phase \in {"try", "channel.close"} /\ ctl'.phase = "join") =>
          /\ workers'[ctl'.w].conn # "open"
          /\ (ctl.phase = "try" => workers'[ctl'.w].chan # "open")]_vars

\* C2: join's try block has run on a worker whose channel and connection
\* were open, and the thread join is next.
C2_Witness ==
    /\ ctl.op = "stop" /\ ctl.phase = "join"
    /\ workers[ctl.w].chan = "open" /\ workers[ctl.w].conn = "open"
    /\ Running(workers[ctl.w])

\* C3 (as claimed): a call of wrapper invokes the function exactly
\* num_retries + 1 times when every invocation fails, and exactly k times
\* when the k-th invocation is the first to succeed, k <= num_retries + 1.
C3_AttemptCount ==
    rt.pc = "done" =>
        rt.calls = IF rt.fails >= rt.num_retries + 1
                   THEN rt.num_retries + 1
                   ELSE rt.fails + 1

\* C3: a call with num_retries >= 2 has ended after every invocation failed.
C3_Witness ==
    /\ rt.pc = "done"
    /\ rt.num_retries >= 2
    /\ rt.failed = rt.calls

\* C4 (as claimed): callback_on_exceeded is called at most once in a call of
\* wrapper, and it is called if and only if the initial invocation and all
\* num_retries retries failed.
C4_ExceededIffAllFailed ==
    /\ rt.exceeded <= 1
    /\ rt.exceeded = 1 => rt.failed = rt.num_retries + 1
    /\ (rt.pc = "done" /\ rt.fails >= rt.num_retries + 1) => rt.exceeded = 1
    /\ (rt.pc = "done" /\ rt.failed < rt.calls) => rt.exceeded = 0

\* C4: callback_on_exceeded has been called in a call with num_retries >= 2.
C4_Witness ==
    /\ rt.pc = "done"
    /\ rt.num_retries >= 2
    /\ rt.exceeded = 1

\* what C5 says of a worker w whose callback raised
HandledOnce(w) ==
    /\ workers[w].handlerCalls = 1
    /\ workers[w].handlerArgs = <<w, workers[w].raised>>
    /\ workers[w].thread = "dead"

\* a step in which the callback of w raises leaves every other worker, the
\* registry and the control thread as they are
OthersUnaffected ==
    \A w \in WorkerIds :
        (workers[w].thread = "callback" /\ workers'[w].thread = "dead") =>
            /\ \A v \in WorkerIds \ {w} : workers'[v] = workers[v]
            /\ UNCHANGED <<nextId, consumers, ctl, last>>

\* C5 (as claimed): whenever the callback of a worker raised, whatever the
\* exception, the error handler of that worker was called exactly once,
\* with the worker and the exception, and the thread has ended.
C5_AnyCallbackException ==
    \A w \in WorkerIds : workers[w].raisedBy = "callback" => HandledOnce(w)

\* C5 (the cases the code keeps): whenever the callback of a worker raised
\* a subclass of Exception that is not a pika ChannelClosed, the error
\* handler of that worker was called exactly once, with the worker and the
\* exception, and the thread has ended; the step leaves every other worker,
\* the registry and the control thread as they are.
C5_CallbackException ==
    /\ [](\A w \in WorkerIds :
            (/\ workers[w].raisedBy = "callback"
             /\ IsException(workers[w].raised)
             /\ ~IsChannelClosed(workers[w].raised))
                => HandledOnce(w))
    /\ [][OthersUnaffected]_vars

\* C5: the callback of a worker raised SystemExit: the thread has ended, the
\* error handler was not called and the exception left run, while another
\* worker is running.
C5_Witness ==
    \E w, v \in WorkerIds :
        /\ w # v
        /\ workers[w].raisedBy = "callback" /\ workers[w].raised = "SystemExit"
        /\ workers[w].thread = "dead"
        /\ workers[w].handlerCalls = 0
        /\ workers[w].escaped = "SystemExit"
        /\ Running(workers[v])

\* C6 (as claimed): no exception leaves the run method of a consumer thread,
\* whether it comes from the receive loop, the callback or the error
\* handler.
C6_NothingEscapesRun == \A w \in WorkerIds : workers[w].escaped = "none"

\* C6: an error handler has been called in some consumer thread.
C6_Witness == \E w \in WorkerIds : workers[w].handlerCalls = 1

\* the control thread is in run_consumers at the point where the for loop is
\* through: the next step returns to the caller
RunReturns == ENABLED run_return

\* a step that starts a thread is a turn of the for loop of a run_consumers
\* that targets the worker, and it starts that thread once and no other
StartsTargetOnce ==
    \A w \in WorkerIds :
        workers'[w].starts # workers[w].starts =>
            /\ ctl.op = "run" /\ w \in ctl.targets
            /\ workers'[w].starts = workers[w].starts + 1
            /\ ctl'.done = ctl.done \cup {w}
            /\ \A v \in WorkerIds \ {w} : workers'[v].starts = workers[v].starts

\* C7: when run_consumers returns, it has started the thread of every
\* worker it targets, every registered worker when no names are given and
\* the registered workers named otherwise, once each, and of no other
\* worker; and no thread is ever started more than once.
C7_RunStartsExactlyTargets ==
    /\ [](/\ \A w \in WorkerIds : workers[w].starts <= 1
          /\ ctl.op = "run" => ctl.done \subseteq ctl.targets
          /\ RunReturns =>
                /\ ctl.done = ctl.targets
                /\ \A w \in ctl.targets : workers[w].starts = 1)
    /\ [][StartsTargetOnce]_vars

\* C7: run_consumers has returned, and of two registered workers one is
\* started and the other is not.
C7_Witness ==
    /\ last = [op |-> "run", result |-> "returned"]
    /\ \E w, v \in RegisteredWorkers :
        /\ workers[w].starts = 1
        /\ workers[v].starts = 0 /\ workers[v].thread = "new"

\* C8: when stop_consumers returns without raising, the thread of every
\* targeted worker has ended.
C8_StopReturnsAfterThreadsEnd ==
    StopReturns => \A w \in ctl.targets : workers[w].thread = "dead"

\* C8: stop_consumers returns for two targeted workers, one of which left
\* its receive loop because stop_consuming went through.
C8_Witness ==
    /\ StopReturns
    /\ Cardinality(ctl.targets) = 2
    /\ \E w \in ctl.targets : workers[w].starts = 1 /\ workers[w].raised = "none"

\* no registered worker was ever started
NoneStarted == \A w \in RegisteredWorkers : workers[w].starts = 0

\* no registered worker is running: each one was never started or has left
\* its receive loop
NoneRunning == \A w \in RegisteredWorkers : ~Running(workers[w])

\* C9 (as claimed): stop_consumers raises no exception when no worker is
\* running, be the registry empty, the workers registered but never
\* started, or some or all of them out of their receive loop through the
\* error path; with an empty registry it calls no join and changes nothing.
C9_StopOfNotRunningNeverRaises ==
    /\ (ctl.op = "stop" /\ NoneRunning) => ~StopRaises
    /\ (ctl.op = "stop" /\ consumers = <<>>)
            => (ctl.phase = "try" /\ ctl.done = {} /\ ctl.targets = {})

\* C9: stop_consumers is about to raise ChildProcessError while workers are
\* registered and none of them was ever started.
C9_Witness ==
    /\ StopRaises
    /\ RegisteredWorkers # {}
    /\ NoneStarted

\* C9 (the cases the code keeps): stop_consumers neither raises nor blocks
\* for a targeted worker that has been started and has left its receive
\* loop, the error path included; with an empty registry it calls no join
\* and changes nothing; it never returns without raising while a targeted
\* worker is unstarted.
C9_StopOfEndedNeverRaises ==
    /\ (ctl.op = "stop" /\ ctl.phase = "join" /\ workers[ctl.w].thread = "dead")
            => (ENABLED stop_joined /\ ~StopRaises)
    /\ (ctl.op = "stop" /\ consumers = <<>>)
            => (ctl.phase = "try" /\ ctl.done = {} /\ ctl.targets = {})
    /\ StopReturns => \A w \in ctl.targets : workers[w].thread # "new"

\* a worker exists while it holds an open connection or channel or a live
\* thread
Exists(wk) == wk.conn = "open" \/ wk.chan = "open" \/ Running(wk)

\* C10 (as claimed): at most one worker exists per registration name.
C10_OneWorkerPerName ==
    \A n \in Names :
        Cardinality({w \in WorkerIds : workers[w].name = n /\ Exists(workers[w])}) <= 1

\* C10: a name is registered again while the worker registered under it
\* before is running.
C10_Witness ==
    \E w, v \in WorkerIds :
        /\ w # v
        /\ workers[w].name = workers[v].name
        /\ Running(workers[w])
        /\ v \in RegisteredWorkers /\ workers[v].thread = "new"

\* C11 (as claimed): whenever the control thread is between two operations,
\* the connection and the channel of every worker constructed, with or
\* without success, are both open or both not open.
C11_ConnectionAndChannelTogether ==
    ctl.op = "idle" =>
        \A w \in Allocated : (workers[w].conn = "open") <=> (workers[w].chan = "open")

\* C11: between two operations, a worker whose construction failed at
\* connection.channel() holds an open connection and no channel.
C11_Witness ==
    /\ ctl.op = "idle"
    /\ last = [op |-> "register", result |-> "raised"]
    /\ \E w \in Allocated : workers[w].conn = "open" /\ workers[w].chan = "none"

\* the state Created: connection and channel open, queue declared and
\* consumption registered, thread not started, callback and error handler
\* never called
Created(wk) ==
    /\ wk.conn = "open" /\ wk.chan = "open"
    /\ wk.built /\ wk.consuming
    /\ wk.thread = "new" /\ wk.starts = 0
    /\ wk.raised = "none" /\ wk.handlerCalls = 0

\* a step that takes the thread of a worker out of "not started" is a step
\* of a run_consumers that targets the worker, and the worker is registered
StartOnlyByRun ==
    \A w \in WorkerIds :
        (workers[w].thread = "new" /\ workers'[w].thread # "new") =>
            /\ workers'[w].thread = "loop"
            /\ w \in RegisteredWorkers
            /\ ctl.op = "run" /\ w \in ctl.targets
            /\ run_start

\* C12: when register_consumer has returned, the registry maps the name to
\* the worker just constructed and that worker is in state Created; a worker
\* leaves "not started" only by a run_consumers that targets it, and is in
\* neither its receive loop nor its callback before.
C12_RegisteredIsCreated ==
    /\ [](/\ (ctl.op = "idle" /\ last = [op |-> "register", result |-> "returned"]) =>
                /\ nextId - 1 \in RegisteredWorkers
                /\ Lookup(workers[nextId - 1].name) = nextId - 1
                /\ Created(workers[nextId - 1])
          /\ \A w \in Allocated :
                workers[w].starts = 0 =>
                    workers[w].thread = "new" /\ workers[w].raised = "none")
    /\ [][StartOnlyByRun]_vars

\* C12: register_consumer has returned for the second time, the second
\* worker is Created and not started while the first one is running.
C12_Witness ==
    /\ ctl.op = "idle"
    /\ last = [op |-> "register", result |-> "returned"]
    /\ nextId - 1 \in RegisteredWorkers
    /\ Created(workers[nextId - 1])
    /\ \E v \in RegisteredWorkers : Running(workers[v])

\* a worker that was started and is stopped: thread ended, channel and
\* connection closed
Stopped(wk) ==
    /\ wk.starts >= 1
    /\ wk.thread = "dead"
    /\ wk.chan = "closed" /\ wk.conn = "closed"

\* C15 (as claimed): a worker whose receive loop was ended by ChannelClosed
\* has ended without its error handler being called and without an
\* exception leaving run, and is stopped: its channel and its connection are
\* closed; a worker whose receive loop was ended by any other exception,
\* raised by start_consuming itself or by the callback it runs, has ended
\* with its error handler called, once, with the worker and the exception.
C15_ChannelClosedIsNormalExit ==
    \A w \in WorkerIds :
        /\ (workers[w].raisedBy = "loop" /\ workers[w].raised = "ChannelClosed") =>
                /\ workers[w].handlerCalls = 0
                /\ workers[w].escaped = "none"
                /\ Stopped(workers[w])
        /\ (workers[w].raisedBy # "none" /\ workers[w].raised # "ChannelClosed") =>
                /\ workers[w].thread = "dead"
                /\ workers[w].handlerCalls = 1
                /\ workers[w].handlerArgs = <<w, workers[w].raised>>

\* C15: the receive loop of one worker was ended by ChannelClosed: no
\* handler call, thread ended, channel closed, connection left open; the
\* receive loop of another was ended by SystemExit: thread ended, no handler
\* call.
C15_Witness ==
    \E w, v \in WorkerIds :
        /\ workers[w].raisedBy = "loop" /\ workers[w].raised = "ChannelClosed"
        /\ workers[w].thread = "dead" /\ workers[w].handlerCalls = 0
        /\ workers[w].chan = "closed" /\ workers[w].conn = "open"
        /\ workers[v].raisedBy = "loop" /\ workers[v].raised = "SystemExit"
        /\ workers[v].thread = "dead" /\ workers[v].handlerCalls = 0
        /\ workers[v].escaped = "SystemExit"

\* C19 (as claimed): the attempt counter is the number of invocations made
\* before, so the i-th sleep of a call lasts get_timeout(backoff_factor,
\* i - 1), and each sleep is twice as long as the one before.
C19_CounterStepsByOne ==
    /\ rt.pc = "try" => rt.num_attempts = rt.calls
    /\ \A i \in 1..Len(rt.sleeps) :
            rt.sleeps[i] = get_timeout_x2(rt.backoff_factor, i - 1)
    /\ \A i \in 2..Len(rt.sleeps) : rt.sleeps[i] = 2 * rt.sleeps[i - 1]

\* C19: the second sleep of a call is four times as long as the first, and
\* the counter is 2 at the second invocation.
C19_Witness ==
    /\ Len(rt.sleeps) >= 2
    /\ rt.sleeps[2] = 4 * rt.sleeps[1]
    /\ rt.calls = 2 /\ rt.num_attempts = 2

\* the order of the events of one call of wrapper, each event counted where
\* it happens: the function is invoked only when every failure so far was
\* followed by its callback and its sleep and callback_on_exceeded was not
\* called; callback_on_attempt_failure follows a failure not yet reported;
\* the sleep follows the callback; callback_on_exceeded follows the sleep of
\* a failed last invocation
OrderStep ==
    /\ rt'.calls # rt.calls =>
            /\ rt'.calls = rt.calls + 1
            /\ rt.exceeded = 0
            /\ rt.on_failure = rt.failed /\ Len(rt.sleeps) = rt.failed
    /\ rt'.on_failure # rt.on_failure =>
            /\ rt'.on_failure = rt.on_failure + 1
            /\ rt.failed = rt.on_failure + 1 /\ Len(rt.sleeps) = rt.on_failure
    /\ rt'.sleeps # rt.sleeps =>
            /\ Len(rt'.sleeps) = Len(rt.sleeps) + 1
            /\ rt.on_failure = Len(rt.sleeps) + 1 /\ rt.failed = rt.on_failure
    /\ rt'.exceeded # rt.exceeded =>
            /\ rt'.exceeded = 1
            /\ rt.failed = rt.calls
            /\ rt.on_failure = rt.failed /\ Len(rt.sleeps) = rt.failed

\* C20: in one call of wrapper every failed invocation is followed by one
\* call of callback_on_attempt_failure, then by the sleep, then by the next
\* invocation or by callback_on_exceeded; the function is never invoked after
\* callback_on_exceeded, and a call that is over has slept once per failure.
C20_OrderOfEvents ==
    /\ [](/\ rt.on_failure <= rt.failed /\ rt.failed <= rt.on_failure + 1
          /\ Len(rt.sleeps) <= rt.on_failure /\ rt.on_failure <= Len(rt.sleeps) + 1
          /\ rt.exceeded = 1 => rt.pc = "done"
          /\ rt.pc = "done" => (rt.on_failure = rt.failed /\ Len(rt.sleeps) = rt.failed))
    /\ [][OrderStep]_vars

\* C20: a call has ended with callback_on_exceeded after three failed
\* invocations, each with its callback and its sleep.
C20_Witness ==
    /\ rt.pc = "done" /\ rt.exceeded = 1
    /\ rt.failed = 3 /\ rt.on_failure = 3 /\ Len(rt.sleeps) = 3

\* the calls of emit_mq_message whose message a callback received
ReceivedCalls == {mq.received[i].call : i \in 1..Len(mq.received)}

\* the strings create_unique_id can return
UuidValues == {UuidHex[u] : u \in Uuid4}

\* a consumer of Q is blocked in start_consuming
ConsumerRunning == \E i \in 1..Len(mq.cons) : mq.cons[i] = "running"

\* every body a callback of a consumer of Q received is the encoding of a
\* dict whose message_id is the id of the call of emit_mq_message that
\* published it, which is the id that call returns if it returns, also when
\* request_data came with a message_id of its own; and the id a call
\* returned is the one it left in the caller's dict
ReturnedIdIsPublishedId ==
    /\ \A i \in 1..Len(mq.received) :
            LET m == mq.received[i] IN
                /\ m.body = dict_to_b64(m.request_data)
                /\ HasKey(m.request_data, "message_id")
                /\ GetItem(m.request_data, "message_id") = m.message_id
                /\ \A j \in 1..Len(mq.returned) :
                        mq.returned[j].call = m.call =>
                            mq.returned[j].message_id = GetItem(m.request_data, "message_id")
    /\ (mq.pc = "idle" /\ mq.lastPub.result \in UuidValues) =>
            /\ mq.lastPub.result = mq.returned[Len(mq.returned)].message_id
            /\ mq.lastPub.result = GetItem(mq.lastPub.after.items, "message_id")

C14_InvalidPayloadIsValueError ==
    LET p == mq.lastPub IN
        (p.result # "none" /\ ~(p.request_data.type = "dict" /\ p.request_data.items # <<>>)) =>
            /\ p.result = "ValueError"
            /\ p.channels = 0 /\ p.published = 0
            /\ p.after = p.request_data

\* C14: emit_mq_message was called with the number 5 and raised TypeError.
C14_Witness ==
    /\ mq.lastPub.request_data = PyInt(5)
    /\ mq.lastPub.result = "TypeError"
    /\ mq.lastPub.channels = 0

\* C16: get_timeout(backoff_factor, number_of_retries), for a positive
\* backoff_factor and number_of_retries >= 1, is backoff_factor *
\* 2^(number_of_retries - 1) (here in half units, i.e. twice that), is not
\* smaller than for any smaller number_of_retries and is twice the value
\* for number_of_retries - 1.
C16_TimeoutDoubles ==
    tm.pc = "returned" =>
        /\ tm.timeout_x2 = 2 * (tm.backoff_factor * 2^(tm.number_of_retries - 1))
        /\ \A m \in 1..tm.number_of_retries :
                get_timeout_x2(tm.backoff_factor, m) <= tm.timeout_x2
        /\ tm.number_of_retries >= 2 =>
                tm.timeout_x2 = 2 * get_timeout_x2(tm.backoff_factor, tm.number_of_retries - 1)

\* C16: get_timeout has returned 0.4 s for backoff_factor 0.1 s and
\* number_of_retries 3.
C16_Witness ==
    /\ tm.pc = "returned"
    /\ tm.backoff_factor = 1 /\ tm.number_of_retries = 3
    /\ tm.timeout_x2 = 8

\* C17 (as claimed): a message published to Q before any consumer of Q was
\* registered is, once a consumer of Q registered and started afterwards is
\* running, eventually delivered to a callback (unless no consumer is left
\* running).
C17_EarlyMessageDelivered ==
    \A c \in 1..MaxPublish :
        (c \in mq.early /\ ConsumerRunning) ~> (c \in ReceivedCalls \/ ~ConsumerRunning)

\* C17: a consumer of Q is running, no message is left in Q, and a message
\* published before any consumer was registered was lost.
C17_Witness ==
    /\ ConsumerRunning
    /\ mq.queue = <<>>
    /\ \E c \in mq.early : c \in mq.lost /\ c \notin ReceivedCalls

\* no step changes the service id of a connector constructed before
ServiceIdsKept ==
    /\ Len(mq'.services) >= Len(mq.services)
    /\ \A i \in 1..Len(mq.services) : mq'.services[i] = mq.services[i]

AboutToJoin ==
    /\ ctl.op = "stop" /\ ctl.phase = "try" /\ ctl.i <= Len(ctl.names)
    /\ ctl.names[ctl.i] \in Registered

\* the control thread is inside ConsumerThread.join at the broker call
\* `phase`, for a worker that was started and is stopped
JoiningStopped(phase) ==
    /\ ctl.op = "stop" /\ ctl.phase = phase
    /\ Stopped(workers[ctl.w])

\* C22: when stop_consumers comes to a worker that was started and is
\* already stopped, ConsumerThread.join leaves every worker as it is,
\* whether stop_consuming returns or raises, calls neither channel.close nor
\* connection.close, and returns without an exception, so that
\* stop_consumers goes on instead of raising.
C22_StopAgainIsQuiet ==
    /\ (AboutToJoin /\ Stopped(workers[Lookup(ctl.names[ctl.i])])) =>
            \A o \in JoinOutcomes :
                /\ ENABLED stop_try(o)
                /\ ~ENABLED (stop_try(o) /\ (workers' # workers \/ ctl'.x))
    /\ JoiningStopped("channel.close") =>
            /\ ENABLED stop_channel_close("returns")
            /\ ~ENABLED stop_channel_close("raises")
            /\ ~ENABLED (stop_channel_close("returns") /\ (workers' # workers \/ ctl'.x))
    /\ JoiningStopped("connection.close") =>
            /\ ENABLED stop_connection_close("returns")
            /\ ~ENABLED stop_connection_close("raises")
            /\ ~ENABLED (stop_connection_close("returns") /\ (workers' # workers \/ ctl'.x))
    /\ JoiningStopped("join") =>
            (~ctl.x /\ ENABLED stop_joined /\ ~StopRaises)

\* C22: a stop_consumers has joined a first stopped worker, gone on, and
\* comes to a second worker that an earlier stop_consumers has stopped (it
\* ended without an exception).
C22_Witness ==
    /\ AboutToJoin /\ ctl.i = 2
    /\ Stopped(workers[Lookup(ctl.names[2])])
    /\ workers[Lookup(ctl.names[2])].raised = "none"
    /\ \E w \in ctl.done : Stopped(workers[w])

\* C25 (as claimed): a worker whose thread has ended holds neither an open
\* channel nor an open connection.
C25_EndedWorkerHoldsNothing ==
    \A w \in WorkerIds :
        workers[w].thread = "dead" =>
            (workers[w].chan # "open" /\ workers[w].conn # "open")

\* C25: between two operations, the thread of a worker has ended after its
\* callback raised and its error handler was called, and the worker holds
\* an open channel on an open connection.
C25_Witness ==
    /\ ctl.op = "idle"
    /\ \E w \in WorkerIds :
        /\ workers[w].thread = "dead"
        /\ workers[w].raisedBy = "callback" /\ workers[w].handlerCalls = 1
        /\ workers[w].chan = "open" /\ workers[w].conn = "open"

\* C24 (as claimed): a stop_consumers that has been called eventually
\* returns or raises, whatever the state of the workers it is about, a
\* failure of stop_consuming included.
C24_StopCompletes == (ctl.op = "stop") ~> (ctl.op = "idle")

\* C24: stop_consumers waits in Thread.join for a worker that is in its
\* receive loop with consumption not cancelled: stop_consuming raised.
C24_Witness ==
    /\ ctl.op = "stop" /\ ctl.phase = "join"
    /\ workers[ctl.w].thread = "loop"
    /\ workers[ctl.w].consuming
    /\ workers[ctl.w].chan = "open" /\ workers[ctl.w].conn = "open"

\* C21 (as claimed): once callback_on_attempt_failure has been called for
\* the attempt that failed last, it was called with the exception of that
\* attempt and the object the wrapper was called on, whatever earlier
\* attempts and earlier calls raised and were called on.
C21_CallbackGetsThisFailure ==
    (rt.on_failure >= 1 /\ rt.pc # "except") => rt.passed = <<rt.e, rt.self>>

\* C21: the second attempt of a call failed with TimeoutError and
\* callback_on_attempt_failure was called with the ConnectionError of the
\* first attempt.
C21_Witness ==
    /\ rt.on_failure = 2 /\ rt.pc = "sleep"
    /\ rt.e = "TimeoutError"
    /\ rt.passed = <<"ConnectionError", "obj">>

\* C23 (as claimed): whenever no call of emit_mq_message is under way,
\* whether the calls made returned an id or raised, no channel that
\* emit_mq_message opened is left open.
C23_PublishChannelClosed == mq.pc = "idle" => mq.open = 0

\* C23: a call of emit_mq_message returned its id, with its channel closed,
\* and in the next call basic_publish raised and the channel the call had
\* opened was left open.
C23_Witness ==
    /\ mq.pc = "idle"
    /\ mq.calls = 2 /\ Len(mq.returned) = 1
    /\ mq.lastPub.result = "AMQPError"
    /\ mq.lastPub.channels = 1 /\ mq.lastPub.published = 0
    /\ mq.open = 1

============================================================================
